---- MODULE Spec2Model ----
(***************************************************************************)
(* Model of the rotation-aware matching engine of telegram-pair-bot        *)
(* (src/main.py): make_pairs, the randomized retry loop that partitions    *)
(* the ready users of a chat into pairs (plus one triad for an odd pool)   *)
(* while avoiding the contact edges of recent rounds.                      *)
(***************************************************************************)
EXTENDS Integers, Sequences, FiniteSets, TLC

(* ---- bounds of the model ---- *)
\* participant identifiers are 1..MaxId
MaxId == 5
\* size of one call, 2 * len(user_ids) + len(recent_edges) + 2 * max_attempts:
\* a large pool comes with a short budget, a long budget with a small pool
MaxWork == 15
\* largest number of forbidden edges a call is given
MaxEdges == 3
\* largest attempt budget (max_attempts) a call is given
MaxAttempts == 3

\* the storage is explored with the user identifiers 0..MaxUser
MaxUser == 2
\* and with the chats 1..MaxChats
MaxChats == 2
\* largest number of rounds recorded in one behaviour
MaxRounds == 3
\* largest history window k asked of get_recent_pair_edges
MaxK == 2

\* size of the bot's database, rows of members, chat_members and polls plus the
\* rounds recorded so far: many memberships come with few rounds
MaxBotWork == 9

(* ---- program constants ---- *)
\* ROUNDS_TO_AVOID, the history window of /pair (default of the environment)
ROUNDS_TO_AVOID == 5

\* best_conflicts = 10**9, the "no candidate yet" score
INF == 1000000000

VARIABLES
    user_ids,        \* argument: the caller's list of participant ids
    recent_edges,    \* argument: the forbidden contact edges (set of 2-sets)
    max_attempts,    \* argument: the attempt budget
    pc,              \* position in make_pairs: "start", "loop", "done"
    attempt,         \* number of loop iterations (shuffles) performed
    ids,             \* local: the working copy that random.shuffle permutes
    best_solution,   \* local: the retained best candidate, or None
    best_conflicts,  \* local: its conflict count
    result,          \* the returned value, None until the call returns
    returned_by,     \* which return statement ended the call
    cands            \* history: the partition each shuffle of this call produced

vars == <<user_ids, recent_edges, max_attempts, pc, attempt, ids, best_solution,
          best_conflicts, result, returned_by, cands>>

VARIABLES
    rounds_table,    \* table rounds: the set of rows <<id, chat_id>>
    pairs_table,     \* table pairs: the rows <<round_id, a, b, c>> in insertion order
    next_id,         \* AUTOINCREMENT: the id the next row of rounds gets
    recorded,        \* history: chat, round id and pairs_list of the record_round calls
                     \* (all of them, or the latest only where /delete_me is explored)
    query            \* the latest get_recent_pair_edges call on the present storage

storeVars == <<rounds_table, pairs_table, next_id, recorded, query>>

VARIABLES
    members,         \* table members: the user ids that have a row
    chat_members,    \* table chat_members: the rows <<chat_id, user_id, weekly_ready>>
    polls            \* table polls: the chats a stored poll belongs to

botVars == <<members, chat_members, polls>>

VARIABLES
    running,         \* the /pair handler the event loop is executing, 0 for none
    hpc,             \* position of each /pair handler in cmd_pair
    hloc             \* locals of each /pair handler: chat, user_ids, recent, solution,
                     \* round_id

loopVars == <<running, hpc, hloc>>

(* ---- values ---- *)
\* Python's None, kept apart from every list of groups (a group has 2 or 3 members)
None == << <<>> >>

Ids == 1..MaxId

\* every frozenset({a, b}) of two distinct identifiers
AllEdges == {{a, b} : a, b \in Ids} \ {{a} : a \in Ids}

Range(s) == {s[i] : i \in 1..Len(s)}

\* the lists get_ready_user_ids hands over: distinct user_id in row order, not sorted
Pools == {[i \in 1..n |-> n + 1 - i] : n \in 0..MaxId}

\* all orderings of 1..n, for every pool size n
Orderings == [n \in 0..MaxId |->
                {p : p \in {q \in [1..n -> 1..n] :
                                \A i \in 1..n : \A j \in 1..n : i # j => q[i] # q[j]}}]

\* random.shuffle(ids): every reordering of the list is a possible outcome
\* (the reorderings of a list of the n values 1..n are the orderings of 1..n)
Shuffles(s) ==
    IF Range(s) = 1..Len(s)
    THEN Orderings[Len(s)]
    ELSE {[i \in 1..Len(s) |-> s[q[i]]] : q \in Orderings[Len(s)]}

\* variant: only the empty pool is turned away, "if not user_ids"
TooSmallEmptyOnly(pool) == Len(pool) < 1

\* the size guard, len(user_ids) < 2
TooSmall(pool) == Len(pool) < 2

(* ---- one attempt of make_pairs ---- *)
\* len(pool) % 2 == 1 and len(pool) >= 3
HasTriad(p) == Len(p) % 2 = 1 /\ Len(p) >= 3

\* variant: the triad taken from the front, tuple(pool[:3])
TriadOfFirst(p) == IF HasTriad(p) THEN SubSeq(p, 1, 3) ELSE <<>>

\* tuple(pool[-3:]), or None
TriadOf(p) == IF HasTriad(p) THEN SubSeq(p, Len(p) - 2, Len(p)) ELSE <<>>

\* variant: only one entry cut off the pair pool, pool[:-1]
PairPoolCutsOne(p) == IF HasTriad(p) THEN SubSeq(p, 1, Len(p) - 1) ELSE p

\* pool[:-3] when a triad is carved off, else the whole permutation
PairPool(p) == IF HasTriad(p) THEN SubSeq(p, 1, Len(p) - 3) ELSE p

\* variant: the pair tested as the tuple (a, b), which equals no frozenset
ScanPairsTuple(pool, edges, i, pairs) ==
    [ok |-> TRUE,
     pairs |-> [k \in 1..(Len(pool) \div 2) |-> <<pool[2 * k - 1], pool[2 * k]>>]]

\* the first pass over the pairs: stops at the first forbidden pair (break)
RECURSIVE ScanPairs(_, _, _, _)
ScanPairs(pool, edges, i, pairs) ==
    IF i > Len(pool) THEN [ok |-> TRUE, pairs |-> pairs]
    ELSE IF {pool[i], pool[i + 1]} \in edges THEN [ok |-> FALSE, pairs |-> pairs]
    ELSE ScanPairs(pool, edges, i + 2, Append(pairs, <<pool[i], pool[i + 1]>>))

\* variant: the edge {b, c} of the triad left unchecked
TriOkTwoEdges(t, edges) ==
    /\ {t[1], t[2]} \notin edges
    /\ {t[1], t[3]} \notin edges

\* tri_ok: none of the three edges of the triad is forbidden
TriOk(t, edges) ==
    /\ {t[1], t[2]} \notin edges
    /\ {t[1], t[3]} \notin edges
    /\ {t[2], t[3]} \notin edges

\* ok after the first pass and the triad check
EarlyOk(p, edges) ==
    LET scan == ScanPairs(PairPool(p), edges, 1, <<>>)
    IN  IF scan.ok /\ HasTriad(p) THEN TriOk(TriadOf(p), edges) ELSE scan.ok

\* variant: return pairs, the triad forgotten
EarlyResultNoTriad(p, edges) == ScanPairs(PairPool(p), edges, 1, <<>>).pairs

\* pairs + ([triad] if triad else []) returned by the early acceptance
EarlyResult(p, edges) ==
    ScanPairs(PairPool(p), edges, 1, <<>>).pairs
        \o (IF HasTriad(p) THEN <<TriadOf(p)>> ELSE <<>>)

\* the second pass: tmp_pairs and the number of forbidden pairs among them
RECURSIVE CountPairs(_, _, _, _, _)
CountPairs(pool2, edges, i, conflicts, tmp_pairs) ==
    IF i > Len(pool2) THEN [conflicts |-> conflicts, tmp_pairs |-> tmp_pairs]
    ELSE CountPairs(pool2, edges, i + 2,
                    conflicts + (IF {pool2[i], pool2[i + 1]} \in edges THEN 1 ELSE 0),
                    Append(tmp_pairs, <<pool2[i], pool2[i + 1]>>))

\* variant: the edge {b, c} of the triad left uncounted
TriConflictsTwoEdges(t, edges) ==
    (IF {t[1], t[2]} \in edges THEN 1 ELSE 0)
  + (IF {t[1], t[3]} \in edges THEN 1 ELSE 0)

\* the conflicts the triad adds: one per forbidden edge among its three
TriConflicts(t, edges) ==
    (IF {t[1], t[2]} \in edges THEN 1 ELSE 0)
  + (IF {t[1], t[3]} \in edges THEN 1 ELSE 0)
  + (IF {t[2], t[3]} \in edges THEN 1 ELSE 0)

\* conflicts of the permutation after the full recount
Conflicts(p, edges) ==
    CountPairs(PairPool(p), edges, 1, 0, <<>>).conflicts
  + (IF HasTriad(p) THEN TriConflicts(TriadOf(p), edges) ELSE 0)

\* variant: best_solution = tmp_pairs, the triad forgotten
CandidateNoTriad(p, edges) == CountPairs(PairPool(p), edges, 1, 0, <<>>).tmp_pairs

\* tmp_pairs + ([tri2] if tri2 else [])
Candidate(p, edges) ==
    CountPairs(PairPool(p), edges, 1, 0, <<>>).tmp_pairs
        \o (IF HasTriad(p) THEN <<TriadOf(p)>> ELSE <<>>)

\* variant: conflicts > best_conflicts
ImprovesFlipped(conflicts, best) == conflicts > best

\* variant: conflicts <= best_conflicts
ImprovesOrEqual(conflicts, best) == conflicts <= best

\* variant: conflicts != best_conflicts
ImprovesDiffers(conflicts, best) == conflicts # best

\* conflicts < best_conflicts
Improves(conflicts, best) == conflicts < best

\* variant: range(max_attempts + 1)
LoopContinuesOneMore(n, budget) == n <= budget

\* for _ in range(max_attempts): another iteration follows
LoopContinues(n, budget) == n < budget

(* ---- a partition and its score, as the contract states them ---- *)
\* the contact edges a group implies: 1 for a pair, 3 for a triad
GroupEdges(g) == {{g[i], g[j]} : i, j \in 1..Len(g)} \ {{g[i]} : i \in 1..Len(g)}

\* number of implied contact edges of the groups that are forbidden
RECURSIVE Score(_, _)
Score(groups, edges) ==
    IF groups = <<>> THEN 0
    ELSE Cardinality(GroupEdges(Head(groups)) \cap edges) + Score(Tail(groups), edges)

\* the partition a permutation stands for: consecutive pairs, and for an odd
\* length the last three entries as the triad
RECURSIVE Chunks(_)
Chunks(p) ==
    IF Len(p) < 2 THEN <<>>
    ELSE IF Len(p) = 3 THEN <<p>>
    ELSE <<SubSeq(p, 1, 2)>> \o Chunks(SubSeq(p, 3, Len(p)))

(* ---- the storage: tables rounds and pairs ---- *)
\* SQL NULL, Python's None in a column of pairs: no identifier has this value
NULL == -1

StoreIds == 0..MaxUser

Chats == 1..MaxChats

\* no call of get_recent_pair_edges has been made on the present storage
NoCall == [chat |-> 0]

\* variant: only the columns a and b are written
StoredRowNoThird(round_id, tup) ==
    <<round_id, tup[1], IF Len(tup) > 1 THEN tup[2] ELSE NULL, NULL>>

\* the row of pairs written for one tuple of pairs_list: a, b, c with None for
\* a missing second or third member; a fourth member is not stored
StoredRow(round_id, tup) ==
    <<round_id,
      tup[1],
      IF Len(tup) > 1 THEN tup[2] ELSE NULL,
      IF Len(tup) > 2 THEN tup[3] ELSE NULL>>

\* the rows one record_round call appends to pairs, in the order of pairs_list
StoredRows(round_id, pairs_list) ==
    [i \in 1..Len(pairs_list) |-> StoredRow(round_id, pairs_list[i])]

\* SELECT id FROM rounds WHERE chat_id=?
ChatRoundIds(chat) == {r[1] : r \in {x \in rounds_table : x[2] = chat}}

\* variant: the chat filter left out, SELECT id FROM rounds
LastRoundIdsAnyChat(chat, k) ==
    LET all == {r[1] : r \in rounds_table}
    IN  {i \in all : Cardinality({j \in all : j > i}) < k}

\* ... ORDER BY id DESC LIMIT k: the k highest round ids of the chat
LastRoundIds(chat, k) ==
    {i \in ChatRoundIds(chat) : Cardinality({j \in ChatRoundIds(chat) : j > i}) < k}

\* SELECT a,b,c FROM pairs WHERE round_id IN (...): the rows in table order
RECURSIVE SelectPairs(_, _)
SelectPairs(table, round_ids) ==
    IF table = <<>> THEN <<>>
    ELSE (IF Head(table)[1] \in round_ids
          THEN << <<Head(table)[2], Head(table)[3], Head(table)[4]>> >>
          ELSE <<>>) \o SelectPairs(Tail(table), round_ids)

\* Python's truth value of a column: None and 0 are false
Truthy(x) == x # NULL /\ x # 0

\* the edges one fetched row (a, b, c) adds:
\* if a and b: {a, b};  if c: {a, c} and {b, c}
RowEdges(row) ==
    (IF Truthy(row[1]) /\ Truthy(row[2]) THEN {{row[1], row[2]}} ELSE {})
        \cup (IF Truthy(row[3]) THEN {{row[1], row[3]}, {row[2], row[3]}} ELSE {})

\* the for loop over the fetched rows, adding to edges
RECURSIVE EdgesOfRows(_, _)
EdgesOfRows(rows, edges) ==
    IF rows = <<>> THEN edges
    ELSE EdgesOfRows(Tail(rows), edges \cup RowEdges(Head(rows)))

\* get_recent_pair_edges(chat, k) on the present tables: what it read and returned
GetRecentPairEdges(chat, k) ==
    LET last_round_ids == LastRoundIds(chat, k)
        rows == SelectPairs(pairs_table, last_round_ids)
    IN  [chat |-> chat,
         k |-> k,
         last_round_ids |-> last_round_ids,
         rows |-> IF last_round_ids = {} THEN <<>> ELSE rows,
         outcome |-> "returned",
         edges |-> IF last_round_ids = {} THEN {} ELSE EdgesOfRows(rows, {})]

\* what one attempt hands back for the shuffle p: the early result when the
\* shuffle is accepted, else the candidate of the recount
ResultOf(p, edges) ==
    IF EarlyOk(p, edges) THEN EarlyResult(p, edges) ELSE Candidate(p, edges)

\* every list make_pairs can return for this pool and forbidden set: the early
\* result of an accepted shuffle, or the candidate of a rejected one (returned
\* when no attempt of the call does better)
MakePairsResults(pool, edges) ==
    IF TooSmall(pool) THEN {<<>>} ELSE {ResultOf(p, edges) : p \in Shuffles(pool)}

\* the two /pair handlers whose interleaving is explored
Handlers == {1, 2}

\* the locals of a handler that has not run yet
NoLocals ==
    [chat |-> 0, user_ids |-> <<>>, recent |-> NoCall, solution |-> <<>>, round_id |-> 0]

\* no /pair handler has been dispatched
LoopIdle ==
    /\ running = 0
    /\ hpc = [h \in Handlers |-> "idle"]
    /\ hloc = [h \in Handlers |-> NoLocals]

\* the database right after init_db, and no /pair handler dispatched
StoreEmpty ==
    /\ rounds_table = {}
    /\ pairs_table = <<>>
    /\ next_id = 1
    /\ recorded = <<>>
    /\ query = NoCall
    /\ members = {}
    /\ chat_members = {}
    /\ polls = {}
    /\ LoopIdle

(* ---- the calls the model explores ---- *)
Init ==
    /\ user_ids \in Pools
    /\ recent_edges \in {E \in SUBSET AllEdges : Cardinality(E) <= MaxEdges}
    /\ max_attempts \in 1..MaxAttempts
    /\ 2 * Len(user_ids) + Cardinality(recent_edges) + 2 * max_attempts <= MaxWork
    /\ pc = "start"
    /\ attempt = 0
    /\ ids = <<>>
    /\ best_solution = None
    /\ best_conflicts = INF
    /\ result = None
    /\ returned_by = "none"
    /\ cands = <<>>
    /\ StoreEmpty

\* entry of make_pairs: the size guard, then the locals
Call ==
    /\ pc = "start"
    /\ IF TooSmall(user_ids)
       THEN /\ pc' = "done"
            /\ result' = <<>>
            /\ returned_by' = "degenerate"
            /\ UNCHANGED <<ids, best_solution, best_conflicts>>
       ELSE /\ pc' = "loop"
            /\ best_solution' = None
            /\ best_conflicts' = INF
            /\ ids' = user_ids
            /\ UNCHANGED <<result, returned_by>>
    /\ UNCHANGED <<user_ids, recent_edges, max_attempts, attempt, cands>>
    /\ UNCHANGED <<storeVars, botVars, loopVars>>

\* variant: ids = user_ids, the shuffle permutes the caller's list itself
CallerListAliased(own, shuffled) == shuffled

\* ids = user_ids[:]: the shuffle permutes a copy, the caller's list stays as it is
CallerList(own, shuffled) == own

\* one iteration of the for loop: shuffle, early check, recount, compare to best
Attempt ==
    /\ pc = "loop"
    /\ LoopContinues(attempt, max_attempts)
    /\ ids' \in Shuffles(ids)
    /\ LET p         == ids'
           conflicts == Conflicts(p, recent_edges)
           cand      == Candidate(p, recent_edges)
       IN
         /\ attempt' = attempt + 1
         /\ cands' = Append(cands, Chunks(p))
         /\ IF EarlyOk(p, recent_edges)
            THEN /\ pc' = "done"
                 /\ result' = EarlyResult(p, recent_edges)
                 /\ returned_by' = "accept"
                 /\ UNCHANGED <<best_solution, best_conflicts>>
            ELSE IF Improves(conflicts, best_conflicts)
            THEN /\ best_conflicts' = conflicts
                 /\ best_solution' = cand
                 /\ IF conflicts = 0
                    THEN /\ pc' = "done"
                         /\ result' = cand
                         /\ returned_by' = "recount"
                    ELSE UNCHANGED <<pc, result, returned_by>>
            ELSE UNCHANGED <<pc, result, returned_by, best_solution, best_conflicts>>
    /\ user_ids' = CallerList(user_ids, ids')
    /\ UNCHANGED <<recent_edges, max_attempts>>
    /\ UNCHANGED <<storeVars, botVars, loopVars>>

\* the loop ran max_attempts times: return best_solution
Exhaust ==
    /\ pc = "loop"
    /\ ~LoopContinues(attempt, max_attempts)
    /\ pc' = "done"
    /\ result' = best_solution
    /\ returned_by' = "exhaust"
    /\ UNCHANGED <<user_ids, recent_edges, max_attempts, attempt, ids, best_solution,
                   best_conflicts, cands>>
    /\ UNCHANGED <<storeVars, botVars, loopVars>>

Next == Call \/ Attempt \/ Exhaust

Spec == Init /\ [][Next]_vars

\* the interpreter runs every statement of a call: no step waits forever
FairSpec == Spec /\ WF_vars(Next)

(* ---- the storage functions called on their own ---- *)
\* no call of make_pairs is under way
EngineIdle ==
    /\ user_ids = <<>>
    /\ recent_edges = {}
    /\ max_attempts = 1
    /\ pc = "start"
    /\ attempt = 0
    /\ ids = <<>>
    /\ best_solution = None
    /\ best_conflicts = INF
    /\ result = None
    /\ returned_by = "none"
    /\ cands = <<>>

\* one list for every set of at least two of the identifiers
StorePools ==
    {CHOOSE p \in [1..Cardinality(S) -> S] : Range(p) = S :
        S \in {T \in SUBSET StoreIds : Cardinality(T) >= 2}}

\* the lists record_round is called with: every result of make_pairs for these
\* pools, and lists whose only group has one member or the same member twice
\* (record_round takes tuples of any length and any content)
RoundLists ==
    UNION {MakePairsResults(pool, {}) : pool \in StorePools}
        \cup {<< <<a>> >> : a \in StoreIds}
        \cup {<< <<a, a>> >> : a \in StoreIds}

\* record_round(chat_id, pairs_list): one row of rounds, one row of pairs per tuple
RecordRound(chat, pairs_list) ==
    /\ rounds_table' = rounds_table \cup {<<next_id, chat>>}
    /\ pairs_table' = pairs_table \o StoredRows(next_id, pairs_list)
    /\ next_id' = next_id + 1

StoreInit == EngineIdle /\ StoreEmpty

CallRecordRound ==
    /\ next_id <= MaxRounds
    /\ \E chat \in Chats : \E pairs_list \in RoundLists :
            /\ RecordRound(chat, pairs_list)
            /\ recorded' = Append(recorded, [chat |-> chat, round_id |-> next_id,
                                             pairs_list |-> pairs_list])
    /\ query' = NoCall
    /\ UNCHANGED <<vars, botVars, loopVars>>

CallGetRecentPairEdges ==
    /\ \E chat \in Chats : \E k \in 0..MaxK : query' = GetRecentPairEdges(chat, k)
    /\ UNCHANGED <<rounds_table, pairs_table, next_id, recorded>>
    /\ UNCHANGED <<vars, botVars, loopVars>>

StoreNext == CallRecordRound \/ CallGetRecentPairEdges

StoreSpec == StoreInit /\ [][StoreNext]_<<vars, storeVars, botVars, loopVars>>

(* ---- the handlers of the bot ---- *)
\* Telegram user ids are positive
BotUsers == 1..(MaxUser + 1)

\* SELECT ... FROM chat_members WHERE chat_id=? AND user_id=?
HasRow(chat, user) == \E r \in chat_members : r[1] = chat /\ r[2] = user

\* set_ready(chat_id, user_id, ready): INSERT OR IGNORE the row, then UPDATE
\* weekly_ready (the column joined is written by set_join and read by nothing)
SetReady(table, chat, user, ready) ==
    {r \in table : ~(r[1] = chat /\ r[2] = user)}
        \cup {<<chat, user, IF ready THEN 1 ELSE 0>>}

\* reset_weekly_ready(chat_id): weekly_ready = 0 in the rows of the chat
ResetWeeklyReady(table, chat) ==
    {IF r[1] = chat THEN <<r[1], r[2], 0>> ELSE r : r \in table}

\* variant: every user who has a row in the chat, ready or not
ReadyUsersAnyFlag(chat) == {r[2] : r \in {x \in chat_members : x[1] = chat}}

\* get_ready_user_ids(chat_id), as a set
ReadyUsers(chat) == {r[2] : r \in {x \in chat_members : x[1] = chat /\ x[3] = 1}}

\* get_ready_user_ids(chat_id): the ready users as the list the query returns
GetReadyUserIds(chat) ==
    CHOOSE p \in [1..Cardinality(ReadyUsers(chat)) -> ReadyUsers(chat)] :
        Range(p) = ReadyUsers(chat)

\* variant: only the chats in which the user is ready this week
ChatsOfUserIfReady(user) == {r[1] : r \in {x \in chat_members : x[2] = user /\ x[3] = 1}}

\* SELECT chat_id FROM chat_members WHERE user_id=?
ChatsOfUser(user) == {r[1] : r \in {x \in chat_members : x[2] = user}}

\* SELECT id FROM rounds WHERE chat_id IN (the chats of the user)
RoundIdsOfUser(user) == {r[1] : r \in {x \in rounds_table : x[2] \in ChatsOfUser(user)}}

\* the database after the step stays within the explored size
WithinBudget ==
    Cardinality(members') + Cardinality(chat_members') + Cardinality(polls')
        + (next_id' - 1) <= MaxBotWork

BotInit == EngineIdle /\ StoreEmpty

\* /start: upsert_member
CmdStart(user) ==
    /\ members' = members \cup {user}
    /\ UNCHANGED <<chat_members, polls, storeVars, vars, loopVars>>
    /\ WithinBudget

\* /join: upsert_member, set_join, set_ready(True)
CmdJoin(chat, user) ==
    /\ members' = members \cup {user}
    /\ chat_members' = SetReady(chat_members, chat, user, TRUE)
    /\ UNCHANGED <<polls, storeVars, vars, loopVars>>
    /\ WithinBudget

\* /leave: set_ready(False)
CmdLeave(chat, user) ==
    /\ chat_members' = SetReady(chat_members, chat, user, FALSE)
    /\ UNCHANGED <<members, polls, storeVars, vars, loopVars>>
    /\ WithinBudget

\* /poll_now by an admin: reset_weekly_ready(chat); the poll is sent afterwards
CmdPollNow(chat) ==
    /\ chat_members' = ResetWeeklyReady(chat_members, chat)
    /\ UNCHANGED <<members, polls, storeVars, vars, loopVars>>

\* weekly_poll_job: reset_weekly_ready(None); the polls are sent afterwards
WeeklyPollJob ==
    /\ chat_members' = {<<r[1], r[2], 0>> : r \in chat_members}
    /\ UNCHANGED <<members, polls, storeVars, vars, loopVars>>

\* send_weekly_poll_to_chat after bot.send_poll has answered: the poll is stored
\* (started by /poll_now or by the weekly job, any number of handlers earlier)
SendWeeklyPollToChat(chat) ==
    /\ polls' = polls \cup {chat}
    /\ UNCHANGED <<members, chat_members, storeVars, vars, loopVars>>
    /\ WithinBudget

\* a poll answer: ignored for an unknown poll; else upsert_member and set_ready
OnPollAnswer(chat, user, ready) ==
    /\ chat \in polls
    /\ members' = members \cup {user}
    /\ chat_members' = SetReady(chat_members, chat, user, ready)
    /\ UNCHANGED <<polls, storeVars, vars, loopVars>>
    /\ WithinBudget

\* /pair by an admin, from reading the ready users to record_round: no await
\* lies between these calls, so the event loop runs them as one step; the
\* history variable keeps this latest call only
CmdPair(chat) ==
    /\ next_id <= MaxRounds
    /\ LET ready_ids == GetReadyUserIds(chat)
           recent == GetRecentPairEdges(chat, ROUNDS_TO_AVOID).edges
       IN  /\ ~(Len(ready_ids) < 2)
           /\ \E solution \in MakePairsResults(ready_ids, recent) :
                  /\ solution # <<>>
                  /\ RecordRound(chat, solution)
                  /\ recorded' = <<[chat |-> chat, round_id |-> next_id,
                                   pairs_list |-> solution]>>
    /\ UNCHANGED <<query, botVars, vars, loopVars>>
    /\ WithinBudget

\* /delete_me: the four DELETE statements, in their order
CmdDeleteMe(user) ==
    /\ pairs_table' = SelectSeq(pairs_table, LAMBDA row : row[1] \notin RoundIdsOfUser(user))
    /\ rounds_table' = {r \in rounds_table : r[2] \notin ChatsOfUser(user)}
    /\ chat_members' = {r \in chat_members : r[2] # user}
    /\ members' = members \ {user}
    /\ UNCHANGED <<next_id, recorded, query, polls, vars, loopVars>>

BotNext ==
    \/ \E user \in BotUsers : CmdStart(user)
    \/ \E chat \in Chats : \E user \in BotUsers : CmdJoin(chat, user)
    \/ \E chat \in Chats : \E user \in BotUsers : CmdLeave(chat, user)
    \/ \E chat \in Chats : CmdPollNow(chat)
    \/ WeeklyPollJob
    \/ \E chat \in Chats : SendWeeklyPollToChat(chat)
    \/ \E chat \in Chats : \E user \in BotUsers : \E ready \in BOOLEAN :
           OnPollAnswer(chat, user, ready)
    \/ \E chat \in Chats : CmdPair(chat)
    \/ \E user \in BotUsers : CmdDeleteMe(user)

BotSpec == BotInit /\ [][BotNext]_<<vars, storeVars, botVars, loopVars>>

(* ---- two /pair handlers on the event loop ---- *)
\* variant: make_pairs awaited too (run outside the event loop)
AwaitingAlsoMatch(pos) == pos \in {"is_admin", "match", "answer"}

\* the positions at which cmd_pair is suspended in an await: bot.get_chat_member
\* inside is_admin, and the final message.answer
Awaiting(pos) == pos \in {"is_admin", "answer"}

\* the event loop resumes a suspended handler only when no handler is running,
\* and a running handler goes on until its next await
MayStep(h) == IF Awaiting(hpc[h]) THEN running = 0 ELSE running = h

\* handler h moves to position pos: it keeps the event loop unless it awaits there
MoveTo(h, pos) ==
    /\ hpc' = [hpc EXCEPT ![h] = pos]
    /\ running' = IF Awaiting(pos) \/ pos = "done" THEN 0 ELSE h

\* every user has a chat_members row in every chat, and the users 1..n are ready
LoopInit ==
    /\ EngineIdle
    /\ rounds_table = {}
    /\ pairs_table = <<>>
    /\ next_id = 1
    /\ recorded = <<>>
    /\ query = NoCall
    /\ members = BotUsers
    /\ chat_members \in {{<<cu[1], cu[2], IF cu[2] <= n THEN 1 ELSE 0>> :
                                cu \in Chats \X BotUsers} :
                            n \in 0..Cardinality(BotUsers)}
    /\ polls = {}
    /\ LoopIdle

\* a /pair message of a group chat is dispatched: ensure_group passes, and the
\* handler awaits the answer of bot.get_chat_member
PairDispatch(h, chat) ==
    /\ hpc[h] = "idle"
    /\ running = 0
    /\ hloc' = [hloc EXCEPT ![h].chat = chat]
    /\ MoveTo(h, "is_admin")
    /\ UNCHANGED <<vars, storeVars, botVars>>

\* is_admin returns: a non-admin is answered, an admin goes on to line 515
PairIsAdmin(h, admin) ==
    /\ hpc[h] = "is_admin"
    /\ MayStep(h)
    /\ MoveTo(h, IF admin THEN "read_ready" ELSE "answer")
    /\ UNCHANGED <<hloc, vars, storeVars, botVars>>

\* user_ids = get_ready_user_ids(chat); fewer than 2: answer and return
PairReadReady(h) ==
    /\ hpc[h] = "read_ready"
    /\ MayStep(h)
    /\ hloc' = [hloc EXCEPT ![h].user_ids = GetReadyUserIds(hloc[h].chat)]
    /\ MoveTo(h, IF Len(hloc'[h].user_ids) < 2 THEN "answer" ELSE "read_history")
    /\ UNCHANGED <<vars, storeVars, botVars>>

\* recent = get_recent_pair_edges(chat, ROUNDS_TO_AVOID)
PairReadHistory(h) ==
    /\ hpc[h] = "read_history"
    /\ MayStep(h)
    /\ hloc' = [hloc EXCEPT ![h].recent = GetRecentPairEdges(hloc[h].chat, ROUNDS_TO_AVOID)]
    /\ MoveTo(h, "match")
    /\ UNCHANGED <<vars, storeVars, botVars>>

\* solution = make_pairs(user_ids, recent)
PairMatch(h) ==
    /\ hpc[h] = "match"
    /\ MayStep(h)
    /\ \E solution \in MakePairsResults(hloc[h].user_ids, hloc[h].recent.edges) :
           hloc' = [hloc EXCEPT ![h].solution = solution]
    /\ MoveTo(h, "record")
    /\ UNCHANGED <<vars, storeVars, botVars>>

\* round_id = record_round(chat, solution), then the announcement is awaited
PairRecord(h) ==
    /\ hpc[h] = "record"
    /\ MayStep(h)
    /\ RecordRound(hloc[h].chat, hloc[h].solution)
    /\ recorded' = Append(recorded, [chat |-> hloc[h].chat, round_id |-> next_id,
                                     pairs_list |-> hloc[h].solution])
    /\ hloc' = [hloc EXCEPT ![h].round_id = next_id]
    /\ MoveTo(h, "answer")
    /\ UNCHANGED <<query, vars, botVars>>

\* message.answer returns and the handler ends
PairAnswered(h) ==
    /\ hpc[h] = "answer"
    /\ MayStep(h)
    /\ MoveTo(h, "done")
    /\ UNCHANGED <<hloc, vars, storeVars, botVars>>

LoopNext ==
    \/ \E h \in Handlers : \E chat \in Chats : PairDispatch(h, chat)
    \/ \E h \in Handlers : \E admin \in BOOLEAN : PairIsAdmin(h, admin)
    \/ \E h \in Handlers : PairReadReady(h)
    \/ \E h \in Handlers : PairReadHistory(h)
    \/ \E h \in Handlers : PairMatch(h)
    \/ \E h \in Handlers : PairRecord(h)
    \/ \E h \in Handlers : PairAnswered(h)

LoopSpec == LoopInit /\ [][LoopNext]_<<vars, storeVars, botVars, loopVars>>

(* ---- vocabulary of the claims ---- *)
Returned == pc = "done"

PoolSize == Len(user_ids)

\* the positions <<group, place>> of a list of groups
Places(groups) == {<<g, i>> \in (1..Len(groups)) \X (1..3) : i <= Len(groups[g])}

\* how often identifier u occurs in a list of groups
Occurrences(groups, u) == Cardinality({pl \in Places(groups) : groups[pl[1]][pl[2]] = u})

Triads(groups) == {g \in 1..Len(groups) : Len(groups[g]) = 3}

ScoreAt(i) == Score(cands[i], recent_edges)

\* every shuffle of the budget was made and none gave a conflict-free partition
BudgetSpent ==
    /\ Returned
    /\ PoolSize >= 2
    /\ Len(cands) = max_attempts
    /\ \A i \in 1..Len(cands) : ScoreAt(i) > 0

\* the earliest attempt whose partition has the lowest conflict count of the run
FirstLowest ==
    CHOOSE i \in 1..Len(cands) :
        /\ \A j \in 1..Len(cands) : ScoreAt(i) <= ScoreAt(j)
        /\ \A j \in 1..(i - 1) : ScoreAt(j) > ScoreAt(i)

(* ---- C1 ---- *)
\* C1 (coverage): the list make_pairs returns for a pool of size >= 2 holds every
\* pool member in exactly one group and holds no identifier outside the pool.
C1_Coverage ==
    (Returned /\ PoolSize >= 2) =>
        /\ result # None
        /\ \A u \in Range(user_ids) : Occurrences(result, u) = 1
        /\ \A pl \in Places(result) : result[pl[1]][pl[2]] \in Range(user_ids)

\* a best-effort result for five participants that still holds a forbidden contact
C1_Witness ==
    /\ Returned
    /\ returned_by = "exhaust"
    /\ PoolSize = 5
    /\ Score(result, recent_edges) >= 1

(* ---- C2 ---- *)
\* C2 (shape): a result for a pool of size >= 2 is made of groups of size 2 plus at
\* most one group of size 3, and has a group of size 3 exactly when the pool size is
\* odd and >= 3, whether it was accepted early or returned as best effort.
C2_Shape ==
    (Returned /\ PoolSize >= 2) =>
        /\ result # None
        /\ \A g \in 1..Len(result) : Len(result[g]) \in {2, 3}
        /\ Cardinality(Triads(result)) <= 1
        /\ (Triads(result) # {}) <=> (PoolSize % 2 = 1 /\ PoolSize >= 3)

\* a best-effort result made of one pair and one triad
C2_Witness ==
    /\ Returned
    /\ returned_by = "exhaust"
    /\ Len(result) = 2
    /\ Len(result[1]) = 2
    /\ Len(result[2]) = 3

(* ---- C3 ---- *)
\* C3 (zero-conflict short-circuit): the attempt that produces a partition with no
\* forbidden contact edge returns exactly that partition, and once the call has
\* returned no further shuffle is made.
C3_ShortCircuit ==
    [][/\ (attempt' = attempt + 1 /\ Score(Chunks(ids'), recent_edges) = 0)
          => (pc' = "done" /\ result' = Chunks(ids'))
       /\ Returned => (attempt' = attempt /\ cands' = cands /\ result' = result)]_vars

\* a conflict-free partition found on the second attempt, with budget left over
C3_Witness ==
    /\ Returned
    /\ attempt = 2
    /\ max_attempts = 3
    /\ ScoreAt(1) > 0
    /\ ScoreAt(2) = 0
    /\ result = cands[2]

(* ---- C4 ---- *)
\* C4 (exhaustion policy): when all max_attempts attempts were made and none was
\* conflict-free, the result is one of the partitions generated in the run and its
\* conflict count is the minimum over all partitions generated in the run.
C4_Exhaustion ==
    BudgetSpent =>
        /\ \E i \in 1..Len(cands) : result = cands[i]
        /\ \A j \in 1..Len(cands) : Score(result, recent_edges) <= ScoreAt(j)

\* the budget is spent and the second attempt was better than the first
C4_Witness ==
    /\ BudgetSpent
    /\ Len(cands) = 2
    /\ ScoreAt(2) < ScoreAt(1)
    /\ result = cands[2]

(* ---- C5 ---- *)
\* C5 (tie-break): the best-effort result is the partition of the earliest attempt
\* that reached the lowest conflict count, and an attempt whose count only equals
\* the recorded best leaves the retained partition as it is.
C5_TieBreak ==
    /\ [](BudgetSpent => result = cands[FirstLowest])
    /\ [][(/\ best_solution # None
           /\ attempt' = attempt + 1
           /\ Score(Chunks(ids'), recent_edges) = best_conflicts)
          => best_solution' = best_solution]_vars

\* two different partitions tie at the lowest count and the first one is returned
C5_Witness ==
    /\ BudgetSpent
    /\ Len(cands) >= 2
    /\ ScoreAt(1) = ScoreAt(2)
    /\ cands[1] # cands[2]
    /\ FirstLowest = 1
    /\ result = cands[1]

(* ---- C6 ---- *)
\* C6 (monotonic improvement): the recorded best conflict count never grows from one
\* attempt to the next, and the retained partition always has exactly the recorded
\* count (no partition is retained while the count is still the initial 10**9).
C6_Monotonic ==
    /\ [][best_conflicts' <= best_conflicts]_vars
    /\ [](IF best_solution = None
          THEN best_conflicts = INF
          ELSE Score(best_solution, recent_edges) = best_conflicts)

\* the recorded best dropped from the first attempt's count to a lower one
C6_Witness ==
    /\ pc = "loop"
    /\ attempt = 2
    /\ ScoreAt(2) < ScoreAt(1)
    /\ best_conflicts = ScoreAt(2)
    /\ best_solution = cands[2]

(* ---- C7 ---- *)
\* C7 (termination and budget): every call returns, and it never makes more than
\* max_attempts shuffles.
C7_Terminates ==
    /\ [](attempt <= max_attempts /\ Len(cands) = attempt)
    /\ <>Returned

\* a call that returned after using its whole budget of three shuffles
C7_Witness ==
    /\ Returned
    /\ attempt = 3
    /\ max_attempts = 3
    /\ returned_by = "exhaust"

(* ---- C8 ---- *)
\* C8 (empty history): with no forbidden edge and a pool of size >= 2 the call makes
\* exactly one attempt and returns the partition of that attempt.
C8_EmptyHistory ==
    (recent_edges = {} /\ PoolSize >= 2) =>
        /\ attempt <= 1
        /\ Returned => (attempt = 1 /\ result = cands[1])

\* five participants, no history, a budget of two: returned after one shuffle
C8_Witness ==
    /\ recent_edges = {}
    /\ PoolSize = 5
    /\ max_attempts = 2
    /\ Returned
    /\ attempt = 1

(* ---- C9 ---- *)
Scenario4 ==
    /\ Range(user_ids) = {1, 2, 3, 4}
    /\ recent_edges = {{1, 2}, {3, 4}}

\* C9 as stated (scenario 4): for pool {1,2,3,4} with {1,2} and {3,4} forbidden the
\* call returns a conflict-free partition and never one holding {1,2} or {3,4}.
C9_AlwaysConflictFree ==
    (Scenario4 /\ Returned) =>
        /\ Score(result, recent_edges) = 0
        /\ \A g \in 1..Len(result) : Range(result[g]) \notin recent_edges

\* C9 as amended: in scenario 4 the call returns a conflict-free partition exactly
\* when one of its max_attempts shuffles produces one; when every shuffle gives the
\* pairing {1,2},{3,4} it returns that pairing, with 2 conflicts.
C9_ConflictFreeIfShuffled ==
    (Scenario4 /\ Returned) =>
        IF \E i \in 1..Len(cands) : ScoreAt(i) = 0
        THEN /\ Score(result, recent_edges) = 0
             /\ {Range(result[g]) : g \in 1..Len(result)}
                    \in {{{1, 3}, {2, 4}}, {{1, 4}, {2, 3}}}
        ELSE /\ Len(cands) = max_attempts
             /\ Score(result, recent_edges) = 2
             /\ {Range(result[g]) : g \in 1..Len(result)} = {{1, 2}, {3, 4}}

\* scenario 4 solved on the second shuffle
C9_Witness ==
    /\ Scenario4
    /\ Returned
    /\ attempt = 2
    /\ Score(result, recent_edges) = 0

(* ---- C10 ---- *)
\* some two members of the pool form a forbidden edge
PoolHasForbiddenPair == \E e \in recent_edges : e \subseteq Range(user_ids)

\* C10 (unavoidable conflict): for a pool of size 2 or 3 with a forbidden pair of
\* members the call makes exactly max_attempts attempts and then returns the one
\* grouping of the whole pool, with its conflicts: not an empty list, not None.
C10_Unavoidable ==
    (PoolSize \in {2, 3} /\ PoolHasForbiddenPair /\ Returned) =>
        /\ attempt = max_attempts
        /\ returned_by = "exhaust"
        /\ result # None
        /\ Len(result) = 1
        /\ Len(result[1]) = PoolSize
        /\ Range(result[1]) = Range(user_ids)
        /\ Score(result, recent_edges) >= 1
        /\ PoolSize = 2 => Score(result, recent_edges) = 1

\* three participants, one forbidden pair among them, all three attempts spent
C10_Witness ==
    /\ PoolSize = 3
    /\ Cardinality(recent_edges) = 1
    /\ PoolHasForbiddenPair
    /\ Returned
    /\ attempt = 3
    /\ Score(result, recent_edges) = 1

(* ---- C11 ---- *)
\* C11 (degenerate pool): for a pool of size 0 or 1 the call never enters the
\* loop and makes no attempt, whatever the forbidden set and the budget, and it
\* returns the empty list through the size guard.
C11_Degenerate ==
    PoolSize < 2 =>
        /\ pc \in {"start", "done"}
        /\ attempt = 0
        /\ cands = <<>>
        /\ Returned => (result = <<>> /\ returned_by = "degenerate")

\* a lone participant, a non-empty forbidden set and a budget of three: returned
C11_Witness ==
    /\ PoolSize = 1
    /\ recent_edges # {}
    /\ max_attempts = 3
    /\ Returned
    /\ result = <<>>
(* ---- vocabulary of the storage claims ---- *)
\* the rounds recorded for a chat, oldest first
RecordedFor(chat) == SelectSeq(recorded, LAMBDA r : r.chat = chat)

\* the k most recently recorded rounds of the chat: the history window
Window(chat, k) ==
    LET mine == RecordedFor(chat)
    IN  {mine[i] : i \in {j \in 1..Len(mine) : j > Len(mine) - k}}

\* the groups of the rounds inside the window of the latest query
WindowGroups ==
    UNION {Range(r.pairs_list) : r \in Window(query.chat, query.k)}

\* a pair or a triad of distinct members
WellFormed(g) == Len(g) \in {2, 3} /\ Cardinality(Range(g)) = Len(g)

Queried == query # NoCall

(* ---- C12 ---- *)
\* C12 (edge derivation): when every group inside the window is a pair or a triad,
\* the set get_recent_pair_edges returns is exactly the union of the contact
\* edges of these groups, 1 per pair and 3 per triad, for all identifiers: none
\* dropped, none added.
C12_EdgeDerivation ==
    (Queried /\ \A g \in WindowGroups : WellFormed(g)) =>
        query.edges = UNION {GroupEdges(g) : g \in WindowGroups}

(* ---- C13 ---- *)
\* C13 (history window per chat): every member of the returned set lies inside a
\* group of one of the k most recently recorded rounds of the chat asked for, and
\* for k = 0 the set is empty whatever is stored.
C13_Window ==
    Queried =>
        /\ \A e \in query.edges : \E g \in WindowGroups : e \subseteq Range(g)
        /\ query.k = 0 => query.edges = {}

\* three rounds stored, two of them in the chat asked with k = 1: the edge of
\* the latest round is returned; {0, 1}, an edge of the older round only, and
\* {0, 2}, an edge of the other chat only, are not
C13_Witness ==
    /\ Queried
    /\ query.chat = 1
    /\ query.k = 1
    /\ recorded = << [chat |-> 1, round_id |-> 1, pairs_list |-> << <<0, 2, 1>> >>],
                     [chat |-> 2, round_id |-> 2, pairs_list |-> << <<0, 1, 2>> >>],
                     [chat |-> 1, round_id |-> 3, pairs_list |-> << <<1, 2>> >>] >>
    /\ GetRecentPairEdges(1, 2).edges = {{0, 1}, {1, 2}}
    /\ GetRecentPairEdges(2, 1).edges = {{0, 2}, {1, 2}}
    /\ query.edges = {{1, 2}}

(* ---- C14 ---- *)
\* C14 (malformed history rejected): when a group inside the window has fewer
\* than 2 or more than 3 distinct members, get_recent_pair_edges does not return
\* an edge set: the call fails.
C14_MalformedRejected ==
    (Queried /\ \E g \in WindowGroups : ~WellFormed(g)) => query.outcome = "raised"
(* ---- C16 ---- *)
\* the latest record_round call stored a result of make_pairs
LatestIsMatching ==
    /\ recorded # <<>>
    /\ \E pool \in StorePools :
           recorded[Len(recorded)].pairs_list \in MakePairsResults(pool, {})

\* C16 (storage round-trip): after record_round(chat, R) for a result R of
\* make_pairs, get_recent_pair_edges(chat, k) with k >= 1 contains every contact
\* edge of every group of R.
C16_RoundTrip ==
    (Queried /\ LatestIsMatching /\ query.k >= 1
        /\ query.chat = recorded[Len(recorded)].chat) =>
            \A g \in Range(recorded[Len(recorded)].pairs_list) :
                GroupEdges(g) \subseteq query.edges

(* ---- C20 ---- *)
\* the fetched rows with rows i and j exchanged
RowsSwapped(rows, i, j) ==
    [n \in 1..Len(rows) |-> IF n = i THEN rows[j] ELSE IF n = j THEN rows[i] ELSE rows[n]]

\* the same stored group with its members in another order: the columns that
\* hold a member permuted
Reorderings(row) ==
    LET n == Cardinality({i \in 1..3 : row[i] # NULL})
    IN  {[i \in 1..3 |-> IF i <= n THEN row[q[i]] ELSE NULL] : q \in Orderings[n]}

\* the fetched rows with the members of row i in another order
RowReordered(rows, i, r) == [n \in 1..Len(rows) |-> IF n = i THEN r ELSE rows[n]]

\* C20 (order-insensitive edge derivation): the set computed from the rows of the
\* window is the same when two rows change places, when the members of a stored
\* group are in another order, when every row occurs twice, and when it is
\* computed a second time from the unchanged storage.
C20_OrderInsensitive ==
    Queried =>
        /\ \A i, j \in 1..Len(query.rows) :
               EdgesOfRows(RowsSwapped(query.rows, i, j), {}) = query.edges
        /\ \A i \in 1..Len(query.rows) : \A r \in Reorderings(query.rows[i]) :
               EdgesOfRows(RowReordered(query.rows, i, r), {}) = query.edges
        /\ EdgesOfRows(query.rows \o query.rows, {}) = query.edges
        /\ GetRecentPairEdges(query.chat, query.k) = query
(* ---- C15 ---- *)
\* the group a stored row holds: its columns that are not NULL
GroupOfRow(row) == SelectSeq(row, LAMBDA x : x # NULL)

\* the groups stored for a round, in table order
GroupsOfRound(table, round_id) ==
    LET rows == SelectPairs(table, {round_id})
    IN  [i \in 1..Len(rows) |-> GroupOfRow(rows[i])]

\* the step leaves this stored round in place, with the groups it had
Kept(r) ==
    /\ r \in rounds_table'
    /\ GroupsOfRound(pairs_table', r[1]) = GroupsOfRound(pairs_table, r[1])

\* a step that called record_round stored one new round holding the result of
\* make_pairs, and a step that did not call it stored no new round
OneRoundPerResult ==
    IF recorded' # recorded
    THEN LET new == recorded'[Len(recorded')]
         IN  /\ new.pairs_list # <<>>
             /\ new.round_id \notin {r[1] : r \in rounds_table}
             /\ rounds_table' = rounds_table \cup {<<new.round_id, new.chat>>}
             /\ GroupsOfRound(pairs_table', new.round_id) = new.pairs_list
    ELSE rounds_table' \subseteq rounds_table

\* C15 (round write-once), as claimed: every /pair that gets a result stores one
\* new round holding it, and no step of any handler changes or removes a stored
\* round.
C15_WriteOnce ==
    [][OneRoundPerResult /\ \A r \in rounds_table : Kept(r)]_<<vars, storeVars, botVars, loopVars>>

\* C15, amended: every /pair that gets a result stores one new round holding it;
\* a stored round is changed by no handler and removed only by /delete_me of a
\* user who has a chat_members row in the chat of the round, and such a
\* /delete_me removes every round of that chat.
C15_WriteOnceUntilDeleteMe ==
    [][/\ OneRoundPerResult
       /\ \A r \in rounds_table :
              \/ Kept(r)
              \/ \E user \in BotUsers : CmdDeleteMe(user) /\ r[2] \in ChatsOfUser(user)
       /\ \A user \in BotUsers : CmdDeleteMe(user) =>
              \A r \in rounds_table : r[2] \in ChatsOfUser(user) => r \notin rounds_table'
      ]_<<vars, storeVars, botVars, loopVars>>

\* round 1 of chat 1 held user 1, who then issued /delete_me; round 2, a triad of
\* chat 2, is stored as recorded
C15_Witness ==
    /\ next_id = 3
    /\ rounds_table = {<<2, 2>>}
    /\ ~HasRow(1, 1)
    /\ HasRow(1, 2)
    /\ recorded[1].round_id = 2
    /\ Len(recorded[1].pairs_list[1]) = 3
    /\ GroupsOfRound(pairs_table, 2) = recorded[1].pairs_list

(* ---- C19 ---- *)
\* no row of members, chat_members or pairs holds the user
NoRowReferences(user) ==
    /\ user \notin members
    /\ \A r \in chat_members : r[2] # user
    /\ \A i \in 1..Len(pairs_table) : user \notin Range(GroupOfRow(Tail(pairs_table[i])))

\* C19 (data deletion): right after a /delete_me of user u, whatever handlers ran
\* before, u has no members row, no chat_members row and is a member of no
\* stored group of any round of any chat.
C19_DataDeletion ==
    [][\A user \in BotUsers : CmdDeleteMe(user) => NoRowReferences(user)']_<<vars, storeVars, botVars, loopVars>>

\* the state a user left behind who was paired in both chats and then issued
\* /delete_me: both rounds are gone, the partner's rows are still there
C19_Witness ==
    /\ next_id = 3
    /\ rounds_table = {}
    /\ pairs_table = <<>>
    /\ NoRowReferences(1)
    /\ HasRow(1, 2)
    /\ HasRow(2, 2)
    /\ recorded # <<>>
    /\ 1 \in Range(recorded[1].pairs_list[1])
(* ---- C17 ---- *)
\* the handler has read the ready users and has not yet recorded its round
InSequence(h) == hpc[h] \in {"read_history", "match", "record"}

\* the handler has recorded a round
Recorded(h) == hloc[h].round_id # 0

\* C17 (per-chat serialization): two /pair handlers of the same chat are never
\* both between reading the ready users and recording the round; when both have
\* recorded, the history read of the one that recorded later held the round of
\* the other, so they did not compute from the same history.
C17_Serialized ==
    \A h1 \in Handlers : \A h2 \in Handlers \ {h1} :
        hloc[h1].chat = hloc[h2].chat =>
            /\ ~(InSequence(h1) /\ InSequence(h2))
            /\ (Recorded(h1) /\ Recorded(h2)) =>
                   /\ hloc[h1].recent.last_round_ids # hloc[h2].recent.last_round_ids
                   /\ \/ hloc[h1].round_id \in hloc[h2].recent.last_round_ids
                      \/ hloc[h2].round_id \in hloc[h1].recent.last_round_ids

\* both handlers ran for chat 1 while the other was suspended in is_admin, and
\* each recorded a round: the second read the first one's round
C17_Witness ==
    /\ hloc[1].chat = 1
    /\ hloc[2].chat = 1
    /\ Recorded(1)
    /\ Recorded(2)
    /\ hpc[1] = "answer"
    /\ hpc[2] = "answer"
    /\ hloc[1].recent.last_round_ids = {}
    /\ hloc[2].recent.last_round_ids = {1}
(* ---- C18 ---- *)
\* the members of a list of groups, in the order they are listed
RECURSIVE Flatten(_)
Flatten(groups) == IF groups = <<>> THEN <<>> ELSE Head(groups) \o Flatten(Tail(groups))

ReadyNow(chat) == {user \in BotUsers : <<chat, user, 1>> \in chat_members}

\* the rounds the step adds to the table rounds
AddedRounds == rounds_table' \ rounds_table

\* the round the step added holds every user who was ready in its chat when the
\* step began, each of them once, nobody else, and they were at least two
CoversReady(r) ==
    LET listed == Flatten(GroupsOfRound(pairs_table', r[1]))
    IN  /\ Cardinality(ReadyNow(r[2])) >= 2
        /\ Range(listed) = ReadyNow(r[2])
        /\ Len(listed) = Cardinality(ReadyNow(r[2]))

\* a step that leaves a flag up is no /leave of that user in that chat, no
\* /poll_now of that chat and no weekly reset, and a flag goes up only by /join
\* or by the answer 'Ready' of that user in that chat
FlagsFollowCommands ==
    /\ \A chat \in Chats : \A user \in BotUsers :
           /\ user \in ReadyNow(chat)' => ~CmdLeave(chat, user)
           /\ user \in ReadyNow(chat)' \ ReadyNow(chat) =>
                  CmdJoin(chat, user) \/ OnPollAnswer(chat, user, TRUE)
    /\ \A chat \in Chats : ReadyNow(chat)' # {} => ~CmdPollNow(chat) /\ ~WeeklyPollJob

\* C21 (pool of a recorded round): a step that records a round for a chat stores
\* exactly the users whose weekly_ready flag in that chat is 1 when the handler
\* reads it, and never with fewer than 2 of them; a user whose flag was cleared
\* by /leave, /poll_now or the weekly reset stays out of the rounds of the chat
\* until a /join or an answer 'Ready' sets the flag again.
C21_PoolOfRound ==
    [][(\A r \in AddedRounds : CoversReady(r)) /\ FlagsFollowCommands
      ]_<<vars, storeVars, botVars, loopVars>>

\* chat 1 had a round of the triad 1, 2, 3; then user 3's flag was cleared and
\* the next round of the chat holds users 1 and 2 only
C21_Witness ==
    /\ rounds_table = {<<1, 1>>, <<2, 1>>}
    /\ Range(Flatten(GroupsOfRound(pairs_table, 1))) = {1, 2, 3}
    /\ Range(Flatten(GroupsOfRound(pairs_table, 2))) = {1, 2}
    /\ <<1, 3, 0>> \in chat_members
    /\ ReadyNow(1) = {1, 2}
    /\ recorded[1].round_id = 2

(* ---- C22 ---- *)
\* the step was an iteration of the loop that ended in the early acceptance
AcceptedEarly == attempt' = attempt + 1 /\ returned_by' = "accept"

\* the step was an iteration of the loop that went on to the recount
Rejected == attempt' = attempt + 1 /\ returned_by' # "accept"

\* the conflict count the full recount gives the permutation of this iteration
Recount == Conflicts(ids', recent_edges)

\* C22 (agreement of the two scoring passes): an iteration accepts its
\* permutation in the early check exactly when the full recount of that
\* permutation is 0; so an iteration that reaches the comparison with the best
\* so far has a recount of at least 1, the call never returns from inside that
\* comparison, and from the first rejected iteration on a best solution is
\* retained, with a conflict count of at least 1.
C22_PassesAgree ==
    /\ [][/\ attempt' = attempt + 1 =>
                 /\ EarlyOk(ids', recent_edges) <=> Recount = 0
                 /\ AcceptedEarly <=> Recount = 0
          /\ Rejected =>
                 /\ Recount >= 1
                 /\ returned_by' = "none"
                 /\ best_solution' # None
                 /\ best_conflicts' >= 1
                 /\ best_conflicts' <= Recount
         ]_vars
    /\ [](returned_by # "recount")

\* a call of five participants whose first shuffle was rejected with one
\* forbidden edge, inside the triad, and whose second shuffle was accepted
C22_Witness ==
    /\ returned_by = "accept"
    /\ PoolSize = 5
    /\ attempt = 2
    /\ best_solution # None
    /\ best_conflicts = 1
    /\ Score(<<cands[1][2]>>, recent_edges) = 1
    /\ ScoreAt(2) = 0
====
